---------------------------- MODULE Spec2Model ----------------------------
(* TodoAPI backend: TodoService over the in-memory TodoRepository.          *)
(*                                                                          *)
(* A C# string is modelled as its run-length encoding: a sequence of runs   *)
(* [ch, n] (n copies of the character ch) in which adjacent runs have       *)
(* different characters.  A nullable value (string?, bool?) is a sequence   *)
(* of length at most one: <<>> is null, <<v>> is the value v.  An object    *)
(* reference is the index of the object in the heap; 0 is the null          *)
(* reference.                                                               *)
EXTENDS Integers, Sequences, FiniteSets, TLC

\* ------------------------------------------------------------------ bounds
MaxTodos == 2
MaxRuns == 3
NumProcs == 2

\* HasMaxLength(500) of the Descricao column
MaxLength == 500

\* bound: the requests a client has under way at a time
MaxInFlight == 2

VARIABLES
    store,    \* TodoRepository._store: key (Guid) -> object reference, 0 = no entry
    heap,     \* the Todo objects: reference -> [st, Id, Descricao, Completo]
    frames,   \* one activation record per request being handled concurrently
    last,     \* the service call that completed last, with arguments and result
    tog,      \* history: the id and the Completo value before the latest successful
              \* toggle, while no update or delete was called on that id since;
              \* twice: that toggle followed another one in the same way
    deleted,  \* history: ids for which DeleteAsync has returned true
    created,  \* history: ids of the tasks CreateAsync has returned
    fin,      \* history, overlapping requests: per process, the id and the values of
              \* the update giving both fields that it has completed with true,
              \* while no request has begun since
    db,       \* TodoService over TodoDbRepository: the rows of the table Todos and
              \* the request handled last, with the store call that was made to fail
    flips,    \* history, overlapping toggles: per task, Completo at its creation and
              \* whether the number of toggles that returned true is odd
    client    \* the browser: useTodoStore's todos, isCompleted of the ItemTodo
              \* components shown, the requests under way, how the last action ended

\* the state of the service over the in-memory TodoRepository
mem == <<store, heap, frames, last, tog, deleted, created, fin>>

\* what the requests to the in-memory service leave alone
aux == <<db, flips, client>>

vars == <<store, heap, frames, last, tog, deleted, created, fin, db, flips, client>>

Guids == 1..MaxTodos
Procs == 1..NumProcs
NullRef == 0
Null == <<>>
Some(v) == <<v>>

\* ----------------------------------------------------------------- strings
Chars == {" ", "a"}

IsWhiteSpace(c) == c = " "

\* a run of white space is one character; a run of letters is as long as the
\* longest description the column takes, so two of them are too long
RunLens(c) == IF IsWhiteSpace(c) THEN {1} ELSE {MaxLength}

Runs == UNION {{[ch |-> c, n |-> k] : k \in RunLens(c)} : c \in Chars}

Canonical(s) == \A i \in 1..(Len(s) - 1) : s[i].ch # s[i + 1].ch

StringsUpTo(k) == UNION {{s \in [1..j -> Runs] : Canonical(s)} : j \in 0..k}

Strings == StringsUpTo(MaxRuns)

RECURSIVE Length(_)
Length(s) == IF s = <<>> THEN 0 ELSE Head(s).n + Length(Tail(s))

RECURSIVE TrimStart(_)
TrimStart(s) ==
    IF s = <<>> THEN s
    ELSE IF IsWhiteSpace(Head(s).ch) THEN TrimStart(Tail(s))
    ELSE s

RECURSIVE TrimEnd(_)
TrimEnd(s) ==
    IF s = <<>> THEN s
    ELSE IF IsWhiteSpace(s[Len(s)].ch) THEN TrimEnd(SubSeq(s, 1, Len(s) - 1))
    ELSE s

TrimStartOnly(s) == TrimStart(s)

Trim(s) == TrimEnd(TrimStart(s))

\* d is a nullable string
IsNullOrWhiteSpace(d) ==
    IF d = Null THEN TRUE
    ELSE \A i \in 1..Len(d[1]) : IsWhiteSpace(d[1][i].ch)

\* ------------------------------------------------------------------- Todo
EmptyString == <<>>

FreeSlot == [st |-> "free", Id |-> NullRef, Descricao |-> EmptyString, Completo |-> FALSE]
DeadSlot == [st |-> "dead", Id |-> NullRef, Descricao |-> EmptyString, Completo |-> FALSE]

\* new Todo { Descricao = d, Completo = c } with Id = Guid.NewGuid() = g
Todo(g, d, c) == [st |-> "live", Id |-> g, Descricao |-> d, Completo |-> c]

\* Guid.NewGuid(): a value no Todo has had before
NewGuid_Reuse(hp) == CHOOSE g \in Guids : hp[g].st # "live" /\ \A h \in Guids : hp[h].st # "live" => g <= h

NewGuid(hp) == CHOOSE g \in Guids : hp[g].st = "free" /\ \A h \in Guids : hp[h].st = "free" => g <= h

CanAllocate(hp) == \E g \in Guids : hp[g].st = "free"

\* the fields of the object behind a reference, as a caller reads them
Fields(hp, r) == [Id |-> hp[r].Id, Descricao |-> hp[r].Descricao, Completo |-> hp[r].Completo]

\* instances no reference reaches any more cannot be observed again
Collect(st, hp, fr) ==
    [g \in Guids |->
        IF /\ hp[g].st = "live"
           /\ \A k \in Guids : st[k] # g
           /\ \A p \in Procs : fr[p].existing # g
        THEN DeadSlot ELSE hp[g]]

\* ------------------------------------------------------------ TodoRepository
Repo_GetAllAsync_SkipFirst(st) ==
    {st[k] : k \in {j \in Guids : st[j] # NullRef /\ \E i \in Guids : i < j /\ st[i] # NullRef}}

Repo_GetAllAsync(st) == {st[k] : k \in {j \in Guids : st[j] # NullRef}}

Repo_GetByIdAsync(st, id) == st[id]

Repo_CreateAsync_Lossy(st, hp, entity) ==
    [k \in Guids |-> IF k = hp[entity].Id THEN entity ELSE NullRef]

Repo_CreateAsync(st, hp, entity) == [st EXCEPT ![hp[entity].Id] = entity]

Repo_UpdateAsync_IfPresent(st, hp, entity) ==
    IF st[hp[entity].Id] = NullRef THEN st ELSE [st EXCEPT ![hp[entity].Id] = entity]

Repo_UpdateAsync(st, hp, entity) == [st EXCEPT ![hp[entity].Id] = entity]

Repo_DeleteAsync(st, id) == [st EXCEPT ![id] = NullRef]


\* -------------------------------------------------------------- TodoService
\* results of a service call
NoRet == [kind |-> "none", todos |-> {}]
RetTrue == [kind |-> "true", todos |-> {}]
RetFalse == [kind |-> "false", todos |-> {}]
RetNull == [kind |-> "null", todos |-> {}]
ArgumentException == [kind |-> "ArgumentException", todos |-> {}]
RetTodo(hp, r) == [kind |-> "Todo", todos |-> {Fields(hp, r)}]
RetTodos(hp, rs) == [kind |-> "Todos", todos |-> {Fields(hp, r) : r \in rs}]

IdleFrame ==
    [pc |-> "idle", op |-> "none", id |-> NullRef, descricao |-> Null,
     completo |-> Null, existing |-> NullRef, ret |-> NoRet, calls |-> <<>>,
     want |-> Null, before |-> Null]

\* the activation record of a call: op names the method, pc its first statement
NewFrame(op, id, d, co) ==
    [pc |-> op, op |-> op, id |-> id, descricao |-> d,
     completo |-> co, existing |-> NullRef, ret |-> NoRet, calls |-> <<>>,
     want |-> Null, before |-> Null]

\* return r: the locals die with the frame; calls lists the repository methods
\* the call has invoked
Return(c, r) ==
    [c EXCEPT !.f = [IdleFrame EXCEPT !.pc = "done", !.op = c.f.op, !.id = c.f.id,
                                      !.ret = r, !.calls = c.f.calls]]

\* the call invokes the repository method m
Invoke(c, m) == [c EXCEPT !.f.calls = Append(@, m)]

\* GetAllAsync() => _repo.GetAllAsync()
Service_GetAllAsync(c) ==
    Return(Invoke(c, "GetAllAsync"), RetTodos(c.heap, Repo_GetAllAsync(c.store)))

\* GetByIdAsync(id) => _repo.GetByIdAsync(id)
Service_GetByIdAsync(c) ==
    LET todo == Repo_GetByIdAsync(c.store, c.f.id)
    IN  IF todo = NullRef THEN Return(Invoke(c, "GetByIdAsync"), RetNull)
        ELSE Return(Invoke(c, "GetByIdAsync"), RetTodo(c.heap, todo))

\* CreateAsync, the check of descricao and new Todo { ... }; an omitted
\* completo is the parameter's default, false
Create_NoTrim(c) ==
    IF IsNullOrWhiteSpace(c.f.descricao) THEN Return(c, ArgumentException)
    ELSE LET g == NewGuid(c.heap)
             completo == IF c.f.completo = Null THEN FALSE ELSE c.f.completo[1]
         IN  [c EXCEPT !.heap[g] = Todo(g, c.f.descricao[1], completo),
                       !.f.existing = g, !.f.descricao = Null, !.f.completo = Null,
                       !.f.pc = "Create_Persist"]

Create_NoCheck(c) ==
    LET g == NewGuid(c.heap)
        completo == IF c.f.completo = Null THEN FALSE ELSE c.f.completo[1]
        d == IF c.f.descricao = Null THEN EmptyString ELSE Trim(c.f.descricao[1])
    IN  [c EXCEPT !.heap[g] = Todo(g, d, completo),
                  !.f.existing = g, !.f.descricao = Null, !.f.completo = Null,
                  !.f.pc = "Create_Persist"]

Create_New(c) ==
    IF IsNullOrWhiteSpace(c.f.descricao) THEN Return(c, ArgumentException)
    ELSE LET g == NewGuid(c.heap)
             completo == IF c.f.completo = Null THEN FALSE ELSE c.f.completo[1]
         IN  [c EXCEPT !.heap[g] = Todo(g, Trim(c.f.descricao[1]), completo),
                       !.f.existing = g, !.f.descricao = Null, !.f.completo = Null,
                       !.f.pc = "Create_Persist"]

\* await _repo.CreateAsync(todo); return todo
Create_Persist(c) ==
    LET st == Repo_CreateAsync(c.store, c.heap, c.f.existing)
    IN  Return(Invoke([c EXCEPT !.store = st], "CreateAsync"), RetTodo(c.heap, c.f.existing))

\* UpdateAsync: var existing = await _repo.GetByIdAsync(id); if (existing == null) return false
Update_Get_TrueWhenAbsent(c) ==
    LET existing == Repo_GetByIdAsync(c.store, c.f.id)
    IN  IF existing = NullRef THEN Return(Invoke(c, "GetByIdAsync"), RetTrue)
        ELSE Invoke([c EXCEPT !.f.existing = existing, !.f.pc = "Update_Descricao"], "GetByIdAsync")

Update_Get_ValidateFirst(c) ==
    LET existing == Repo_GetByIdAsync(c.store, c.f.id)
    IN  IF c.f.descricao # Null /\ IsNullOrWhiteSpace(c.f.descricao)
        THEN Return(Invoke(c, "GetByIdAsync"), ArgumentException)
        ELSE IF existing = NullRef THEN Return(Invoke(c, "GetByIdAsync"), RetFalse)
        ELSE Invoke([c EXCEPT !.f.existing = existing, !.f.pc = "Update_Descricao"], "GetByIdAsync")

Update_Get(c) ==
    LET existing == Repo_GetByIdAsync(c.store, c.f.id)
    IN  IF existing = NullRef THEN Return(Invoke(c, "GetByIdAsync"), RetFalse)
        ELSE Invoke([c EXCEPT !.f.existing = existing, !.f.pc = "Update_Descricao"], "GetByIdAsync")

\* if (descricao != null) { check; existing.Descricao = descricao.Trim(); }
Update_Descricao_CompletoFirst(c) ==
    LET hp == IF c.f.completo # Null
              THEN [c.heap EXCEPT ![c.f.existing].Completo = c.f.completo[1]]
              ELSE c.heap
    IN  IF c.f.descricao = Null THEN [c EXCEPT !.f.pc = "Update_Completo"]
        ELSE IF IsNullOrWhiteSpace(c.f.descricao)
        THEN Return([c EXCEPT !.heap = hp], ArgumentException)
        ELSE [c EXCEPT !.heap[c.f.existing].Descricao = Trim(c.f.descricao[1]),
                       !.f.descricao = Null, !.f.pc = "Update_Completo"]

Update_Descricao(c) ==
    IF c.f.descricao = Null THEN [c EXCEPT !.f.pc = "Update_Completo"]
    ELSE IF IsNullOrWhiteSpace(c.f.descricao) THEN Return(c, ArgumentException)
    ELSE [c EXCEPT !.heap[c.f.existing].Descricao = Trim(c.f.descricao[1]),
                   !.f.descricao = Null, !.f.pc = "Update_Completo"]

\* if (completo.HasValue) existing.Completo = completo.Value
Update_Completo_Always(c) ==
    [c EXCEPT !.heap[c.f.existing].Completo = (c.f.completo = Some(TRUE)),
              !.f.completo = Null, !.f.pc = "Update_Persist"]

Update_Completo(c) ==
    IF c.f.completo = Null THEN [c EXCEPT !.f.pc = "Update_Persist"]
    ELSE [c EXCEPT !.heap[c.f.existing].Completo = c.f.completo[1],
                   !.f.completo = Null, !.f.pc = "Update_Persist"]

\* await _repo.UpdateAsync(existing); return true
Update_Persist_NoWrite(c) == Return(c, RetTrue)

Update_Persist(c) ==
    LET st == Repo_UpdateAsync(c.store, c.heap, c.f.existing)
    IN  Return(Invoke([c EXCEPT !.store = st], "UpdateAsync"), RetTrue)

\* ToggleCompleteAsync: var existing = await _repo.GetByIdAsync(id); if (existing == null) return false
Toggle_Get_TrueWhenAbsent(c) ==
    LET existing == Repo_GetByIdAsync(c.store, c.f.id)
    IN  IF existing = NullRef THEN Return(Invoke(c, "GetByIdAsync"), RetTrue)
        ELSE Invoke([c EXCEPT !.f.existing = existing, !.f.pc = "Toggle_Read"], "GetByIdAsync")

Toggle_Get(c) ==
    LET existing == Repo_GetByIdAsync(c.store, c.f.id)
    IN  IF existing = NullRef THEN Return(Invoke(c, "GetByIdAsync"), RetFalse)
        ELSE Invoke([c EXCEPT !.f.existing = existing, !.f.pc = "Toggle_Read"], "GetByIdAsync")

\* existing.Completo = !existing.Completo, the read of the right-hand side;
\* the value to be written is held in the frame
Toggle_Read_NoFlip(c) ==
    [c EXCEPT !.f.completo = Some(TRUE), !.f.pc = "Toggle_Write"]

Toggle_Read(c) ==
    [c EXCEPT !.f.completo = Some(~c.heap[c.f.existing].Completo), !.f.pc = "Toggle_Write"]

\* existing.Completo = !existing.Completo, the write of the property
Toggle_Write(c) ==
    [c EXCEPT !.heap[c.f.existing].Completo = c.f.completo[1],
              !.f.completo = Null, !.f.pc = "Toggle_Persist"]

\* await _repo.UpdateAsync(existing); return true
Toggle_Persist(c) ==
    LET st == Repo_UpdateAsync(c.store, c.heap, c.f.existing)
    IN  Return(Invoke([c EXCEPT !.store = st], "UpdateAsync"), RetTrue)

\* DeleteAsync: var existing = await _repo.GetByIdAsync(id); if (existing == null) return false
Delete_Get(c) ==
    LET existing == Repo_GetByIdAsync(c.store, c.f.id)
    IN  IF existing = NullRef THEN Return(Invoke(c, "GetByIdAsync"), RetFalse)
        ELSE Invoke([c EXCEPT !.f.existing = existing, !.f.pc = "Delete_Remove"], "GetByIdAsync")

\* await _repo.DeleteAsync(id); return true
Delete_Remove_All(c) ==
    Return(Invoke([c EXCEPT !.store = [k \in Guids |-> NullRef]], "DeleteAsync"), RetTrue)

Delete_Remove(c) ==
    Return(Invoke([c EXCEPT !.store = Repo_DeleteAsync(c.store, c.f.id)], "DeleteAsync"), RetTrue)

\* the statement at the frame's pc
Step(c) ==
    CASE c.f.pc = "GetAll" -> Service_GetAllAsync(c)
      [] c.f.pc = "GetById" -> Service_GetByIdAsync(c)
      [] c.f.pc = "Create" -> Create_New(c)
      [] c.f.pc = "Create_Persist" -> Create_Persist(c)
      [] c.f.pc = "Update" -> Update_Get(c)
      [] c.f.pc = "Update_Descricao" -> Update_Descricao(c)
      [] c.f.pc = "Update_Completo" -> Update_Completo(c)
      [] c.f.pc = "Update_Persist" -> Update_Persist(c)
      [] c.f.pc = "Toggle" -> Toggle_Get(c)
      [] c.f.pc = "Toggle_Read" -> Toggle_Read(c)
      [] c.f.pc = "Toggle_Write" -> Toggle_Write(c)
      [] c.f.pc = "Toggle_Persist" -> Toggle_Persist(c)
      [] c.f.pc = "Delete" -> Delete_Get(c)
      [] c.f.pc = "Delete_Remove" -> Delete_Remove(c)

\* a call run from its first statement to its return
RECURSIVE Run(_)
Run(c) == IF c.f.pc = "done" THEN c ELSE Run(Step(c))

\* ------------------------------------------------------------------ inputs
\* string? arguments: null and every string of at most MaxRuns runs
Descricoes == {Null} \cup {Some(s) : s \in Strings}

\* the arguments drawn while requests overlap: null, the empty string and the
\* strings that Trim leaves as they are
ShortDescricoes == {Null} \cup {Some(s) : s \in {t \in Strings : t = Trim(t)}}

\* bool? arguments
Completos == {Null, Some(TRUE), Some(FALSE)}

\* -------------------------------------------------------------- controller
\* the answers of TodoController: a status code and the tasks of the body
Answer(status, todos) == [status |-> status, body |-> todos]

NoAnswer == Answer(0, {})

\* return Ok(list)
Controller_GetAll(ret) == Answer(200, ret.todos)

Controller_GetById_AlwaysOk(ret) == Answer(200, ret.todos)

\* return todo is null ? NotFound() : Ok(todo)
Controller_GetById(ret) ==
    IF ret = RetNull THEN Answer(404, {}) ELSE Answer(200, ret.todos)

Controller_Create_NoCatch(ret) ==
    IF ret = ArgumentException THEN Answer(500, {}) ELSE Answer(201, ret.todos)

\* try { ... return CreatedAtAction(..., todo) } catch (ArgumentException) { return BadRequest(...) }
Controller_Create(ret) ==
    IF ret = ArgumentException THEN Answer(400, {}) ELSE Answer(201, ret.todos)

Controller_Update_NotFoundAsBadRequest(ret) ==
    IF ret = RetTrue THEN Answer(204, {}) ELSE Answer(400, {})

\* try { return ok ? NoContent() : NotFound() } catch (ArgumentException) { return BadRequest(...) }
Controller_Update(ret) ==
    IF ret = ArgumentException THEN Answer(400, {})
    ELSE IF ret = RetTrue THEN Answer(204, {}) ELSE Answer(404, {})

\* return ok ? Ok() : NotFound()
Controller_Toggle(ret) ==
    IF ret = RetTrue THEN Answer(200, {}) ELSE Answer(404, {})

\* return ok ? NoContent() : NotFound()
Controller_Delete(ret) ==
    IF ret = RetTrue THEN Answer(204, {}) ELSE Answer(404, {})

\* the answer of the controller action that made the service call op
Respond(op, ret) ==
    CASE op = "GetAll"  -> Controller_GetAll(ret)
      [] op = "GetById" -> Controller_GetById(ret)
      [] op = "Create"  -> Controller_Create(ret)
      [] op = "Update"  -> Controller_Update(ret)
      [] op = "Toggle"  -> Controller_Toggle(ret)
      [] op = "Delete"  -> Controller_Delete(ret)

\* --------------------------------------------------------------- histories
NoCall ==
    [op |-> "none", id |-> NullRef, descricao |-> Null, completo |-> Null,
     ret |-> NoRet, calls |-> <<>>, http |-> NoAnswer]

\* tog after a call op(id) that returned ret, before was Completo at the call
TogAfter(op, id, ret, before) ==
    IF op = "Toggle" /\ ret = RetTrue
    THEN Some([id |-> id, before |-> before,
               twice |-> IF tog = Null THEN FALSE ELSE tog[1].id = id])
    ELSE IF op \in {"Update", "Delete", "Toggle"} /\ tog # Null
    THEN (IF tog[1].id = id THEN Null ELSE tog)
    ELSE tog

DeletedAfter(op, id, ret) ==
    IF op = "Delete" /\ ret = RetTrue THEN deleted \cup {id} ELSE deleted

CreatedAfter(op, ret) ==
    IF op = "Create" /\ ret.kind = "Todo"
    THEN created \cup {t.Id : t \in ret.todos} ELSE created

\* ------------------------------------------------------ one request at a time
Idle == \A p \in Procs : frames[p].pc = "idle"

\* a request handled from start to end with no other request running: the
\* service call of its controller action and the answer
Handle(op, id, d, co) ==
    /\ Idle
    /\ \E c \in {Run([store |-> store, heap |-> heap, f |-> NewFrame(op, id, d, co)])} :
           /\ store' = c.store
           /\ heap' = Collect(c.store, c.heap, frames)
           /\ last' = [op |-> op, id |-> id, descricao |-> d, completo |-> co,
                        ret |-> c.f.ret, calls |-> c.f.calls,
                        http |-> Respond(op, c.f.ret)]
           /\ tog' = TogAfter(op, id, c.f.ret, IF id \in Guids THEN heap[id].Completo ELSE FALSE)
           /\ deleted' = DeletedAfter(op, id, c.f.ret)
           /\ created' = CreatedAfter(op, c.f.ret)
    /\ UNCHANGED <<frames, fin>>

Call(op, id, d, co) == Handle(op, id, d, co) /\ UNCHANGED aux

GetAllAsync == Call("GetAll", NullRef, Null, Null)

GetByIdAsync(id) == Call("GetById", id, Null, Null)

CreateAsync(d, co) ==
    /\ IF IsNullOrWhiteSpace(d) THEN TRUE ELSE CanAllocate(heap)
    /\ Call("Create", NullRef, d, co)

UpdateAsync(id, d, co) == Call("Update", id, d, co)

ToggleCompleteAsync(id) == Call("Toggle", id, Null, Null)

DeleteAsync(id) == Call("Delete", id, Null, Null)

\* a request to a route with {id:guid} whose id is not a Guid: no action of the
\* controller matches it, no service call is made and the answer is 404
NoRoute ==
    /\ Idle
    /\ last' = [NoCall EXCEPT !.op = "NoRoute", !.http = Answer(404, {})]
    /\ UNCHANGED <<store, heap, frames, tog, deleted, created, fin>>
    /\ UNCHANGED aux

\* ------------------------------------------------------- overlapping requests
\* history of an update that gives both fields, kept in its frame once it has
\* looked the task up: want, the record it is to leave, and before, the record
\* it found
Noted(c0, c) ==
    IF /\ c0.f.pc = "Update"
       /\ c.f.pc = "Update_Descricao"
       /\ c0.f.descricao # Null
       /\ ~IsNullOrWhiteSpace(c0.f.descricao)
       /\ c0.f.completo # Null
    THEN [c.f EXCEPT !.want = Some([Id |-> c0.f.id, Descricao |-> Trim(c0.f.descricao[1]),
                                    Completo |-> c0.f.completo[1]]),
                     !.before = Some(Fields(c.heap, c.f.existing))]
    ELSE c.f

\* a step of a call that writes the task id makes before of the other updates
\* of that id stale
Stale(fr, p, f) ==
    [q \in Procs |->
        IF /\ q # p
           /\ f.op \in {"Update", "Toggle", "Delete"}
           /\ fr[q].id = f.id
        THEN [fr[q] EXCEPT !.before = Null] ELSE fr[q]]

FinAfter(p, c0, c) ==
    LET base == IF c0.f.pc = c0.f.op THEN [q \in Procs |-> Null] ELSE fin
    IN  IF c.f.pc = "done" /\ c.f.ret = RetTrue /\ c0.f.want # Null
        THEN [base EXCEPT ![p] = c0.f.want] ELSE base

\* process p executes the statement at its pc; a return frees the frame
Advance(p, c0) ==
    \E c \in {Step(c0)} :
        /\ store' = c.store
        /\ frames' = [Stale(frames, p, c.f) EXCEPT
                         ![p] = IF c.f.pc = "done" THEN IdleFrame ELSE Noted(c0, c)]
        /\ fin' = FinAfter(p, c0, c)
        /\ heap' = Collect(c.store, c.heap, frames')
        /\ deleted' = IF c.f.pc = "done" THEN DeletedAfter(c.f.op, c.f.id, c.f.ret) ELSE deleted
        /\ created' = IF c.f.pc = "done" THEN CreatedAfter(c.f.op, c.f.ret) ELSE created
        /\ UNCHANGED <<last, tog>>

\* a request arrives at p and runs its first statement
Begin(p, op, id, d, co) ==
    /\ frames[p].pc = "idle"
    /\ Advance(p, [store |-> store, heap |-> heap, f |-> NewFrame(op, id, d, co)])
    /\ UNCHANGED aux

BeginGetAll(p) == Begin(p, "GetAll", NullRef, Null, Null)

BeginGetById(p, id) == Begin(p, "GetById", id, Null, Null)

BeginCreate(p, d, co) ==
    /\ IF IsNullOrWhiteSpace(d) THEN TRUE ELSE CanAllocate(heap)
    /\ Begin(p, "Create", NullRef, d, co)

BeginUpdate(p, id, d, co) == Begin(p, "Update", id, d, co)

BeginToggle(p, id) == Begin(p, "Toggle", id, Null, Null)

BeginDelete(p, id) == Begin(p, "Delete", id, Null, Null)

Continue(p) ==
    /\ frames[p].pc # "idle"
    /\ Advance(p, [store |-> store, heap |-> heap, f |-> frames[p]])
    /\ UNCHANGED aux

\* no task created yet
NoFlips == [g \in Guids |-> Null]

\* ------------------------------------------------------------- the client
Slots == 1..MaxInFlight

NoReq ==
    [kind |-> "none", id |-> NullRef, descricao |-> Null, completo |-> Null,
     phase |-> "free", answer |-> NoAnswer]

\* state: () => ({ todos: [] }); no component shown, no request made
NoClient ==
    [todos |-> [g \in Guids |-> Null], isCompleted |-> [g \in Guids |-> Null],
     reqs |-> [s \in Slots |-> NoReq], outcome |-> "none", loaded |-> FALSE]

AllFree(cl) == \A s \in Slots : cl.reqs[s].phase = "free"

\* the model lets at most MaxInFlight requests be under way
HasFree(cl) == \E s \in Slots : cl.reqs[s].phase = "free"

\* axios makes the request and the action waits for it
Sent(cl, kind, id, d, co) ==
    LET s == CHOOSE x \in Slots :
                 cl.reqs[x].phase = "free" /\ \A y \in Slots : cl.reqs[y].phase = "free" => x <= y
    IN  [cl EXCEPT !.reqs[s] = [kind |-> kind, id |-> id, descricao |-> d, completo |-> co,
                                phase |-> "sent", answer |-> NoAnswer]]

\* axios resolves for an answer with a status from 200 to 299 and rejects otherwise
Resolves(req) == req.phase = "answered" /\ req.answer.status \in 200..299

\* a task as the client holds it
Item(t) == Some([descricao |-> t.Descricao, completo |-> t.Completo])

AfterResponse_DeleteAnyway(todos, req) ==
    IF req.kind = "delete" THEN [todos EXCEPT ![req.id] = Null]
    ELSE IF ~Resolves(req) THEN todos
    ELSE CASE req.kind \in {"fetch", "load"} ->
                  [g \in Guids |->
                      IF \E t \in req.answer.body : t.Id = g
                      THEN Item(CHOOSE t \in req.answer.body : t.Id = g) ELSE Null]
           [] req.kind = "add" ->
                  [g \in Guids |->
                      IF \E t \in req.answer.body : t.Id = g
                      THEN Item(CHOOSE t \in req.answer.body : t.Id = g) ELSE todos[g]]
           [] req.kind = "put" ->
                  IF todos[req.id] = Null THEN todos
                  ELSE [todos EXCEPT ![req.id] =
                           Some([descricao |-> IF req.descricao = Null THEN @[1].descricao
                                               ELSE req.descricao[1],
                                 completo |-> IF req.completo = Null THEN @[1].completo
                                              ELSE req.completo[1]])]
           [] req.kind = "toggle" ->
                  IF todos[req.id] = Null THEN todos
                  ELSE [todos EXCEPT ![req.id] = Some([@[1] EXCEPT !.completo = req.completo[1]])]

\* todos after the statements that follow the await of each action; nothing
\* follows when axios rejects, the catch block logs
AfterResponse(todos, req) ==
    IF ~Resolves(req) THEN todos
    ELSE CASE req.kind \in {"fetch", "load"} ->
                  [g \in Guids |->
                      IF \E t \in req.answer.body : t.Id = g
                      THEN Item(CHOOSE t \in req.answer.body : t.Id = g) ELSE Null]
           [] req.kind = "add" ->
                  [g \in Guids |->
                      IF \E t \in req.answer.body : t.Id = g
                      THEN Item(CHOOSE t \in req.answer.body : t.Id = g) ELSE todos[g]]
           [] req.kind = "put" ->
                  IF todos[req.id] = Null THEN todos
                  ELSE [todos EXCEPT ![req.id] =
                           Some([descricao |-> IF req.descricao = Null THEN @[1].descricao
                                               ELSE req.descricao[1],
                                 completo |-> IF req.completo = Null THEN @[1].completo
                                              ELSE req.completo[1]])]
           [] req.kind = "toggle" ->
                  IF todos[req.id] = Null THEN todos
                  ELSE [todos EXCEPT ![req.id] = Some([@[1] EXCEPT !.completo = req.completo[1]])]
           [] req.kind = "delete" -> [todos EXCEPT ![req.id] = Null]

\* const isCompleted = ref(props.todo.completo): set when the component of a
\* task is first shown, kept while the task stays in todos; the list is shown
\* once the page has loaded
Shown(isCompleted, todos, loaded) ==
    [g \in Guids |->
        IF ~loaded \/ todos[g] = Null THEN Null
        ELSE IF isCompleted[g] # Null THEN isCompleted[g]
        ELSE Some(todos[g][1].completo)]

\* an action of useTodoStore up to its await
Await(kind, id, d, co) ==
    /\ HasFree(client)
    /\ client' = Sent(client, kind, id, d, co)
    /\ UNCHANGED <<mem, db, flips>>

FetchTodos == Await("fetch", NullRef, Null, Null)

\* axios.post(api, { ...data, completo: false })
AddTodo(d) == Await("add", NullRef, d, Some(FALSE))

\* payload: the fields of data that are defined; no request for an empty payload
UpdateTodo(id, d, co) ==
    IF d = Null /\ co = Null
    THEN /\ client' = [client EXCEPT !.outcome = "returned"]
         /\ UNCHANGED <<mem, db, flips>>
    ELSE Await("put", id, d, co)

UpdateToggleTodo(id, completo) == Await("toggle", id, Null, Some(completo))

DeleteTodo(id) == Await("delete", id, Null, Null)

\* the API handles the request in slot s and answers
Serve(s) ==
    LET req == client.reqs[s]
        op == CASE req.kind \in {"fetch", "load"} -> "GetAll"
                [] req.kind = "add" -> "Create"
                [] req.kind = "put" -> "Update"
                [] req.kind = "toggle" -> "Toggle"
                [] req.kind = "delete" -> "Delete"
                [] OTHER -> "none"
    IN  /\ req.phase = "sent"
        /\ Idle
        /\ IF op = "Create" /\ ~IsNullOrWhiteSpace(req.descricao) THEN CanAllocate(heap) ELSE TRUE
        /\ \E c \in {Run([store |-> store, heap |-> heap,
                           f |-> NewFrame(op, req.id, req.descricao, req.completo)])} :
               /\ store' = c.store
               /\ heap' = Collect(c.store, c.heap, frames)
               /\ client' = [client EXCEPT !.reqs[s].phase = "answered",
                                           !.reqs[s].answer = Respond(op, c.f.ret)]
        /\ UNCHANGED <<frames, last, tog, deleted, created, fin, db, flips>>

\* the request in slot s is lost on its way, or its answer is
Fail(s) ==
    /\ client.reqs[s].phase \in {"sent", "answered"}
    /\ client' = [client EXCEPT !.reqs[s].phase = "failed", !.reqs[s].answer = NoAnswer]
    /\ UNCHANGED <<mem, db, flips>>

\* the action waiting for the request in slot s goes on after its await, in
\* the try block or in the catch block, and ends
Receive(s) ==
    /\ client.reqs[s].phase \in {"answered", "failed"}
    /\ \E todos \in {AfterResponse(client.todos, client.reqs[s])} :
           client' = [todos |-> todos,
                      isCompleted |-> Shown(client.isCompleted, todos,
                                            client.loaded \/ client.reqs[s].kind = "load"),
                      reqs |-> [client.reqs EXCEPT ![s] = NoReq],
                      outcome |-> IF Resolves(client.reqs[s]) THEN "returned" ELSE "caught",
                      loaded |-> client.loaded \/ client.reqs[s].kind = "load"]
    /\ UNCHANGED <<mem, db, flips>>

\* what FormTodo and ItemTodo give the actions: a text, no text
ClientDescricoes == {Some(EmptyString), Some(<<[ch |-> "a", n |-> MaxLength]>>)}

\* data of updateTodo: nothing, a descricao, a completo
ClientData ==
    {<<Null, Null>>} \cup {<<d, Null>> : d \in ClientDescricoes} \cup {<<Null, Some(b)>> : b \in BOOLEAN}

ClientNext ==
    \/ FetchTodos
    \/ \E d \in ClientDescricoes : AddTodo(d)
    \/ \E id \in Guids, data \in ClientData : UpdateTodo(id, data[1], data[2])
    \/ \E id \in Guids, completo \in BOOLEAN : UpdateToggleTodo(id, completo)
    \/ \E id \in Guids : DeleteTodo(id)
    \/ \E s \in Slots : Serve(s)
    \/ \E s \in Slots : Fail(s)
    \/ \E s \in Slots : Receive(s)

\* a task made through the API before the page is opened
Arrange(co) ==
    /\ ~client.loaded
    /\ AllFree(client)
    /\ CanAllocate(heap)
    /\ \E c \in {Run([store |-> store, heap |-> heap,
                       f |-> NewFrame("Create", NullRef,
                                      Some(<<[ch |-> "a", n |-> MaxLength]>>), co)])} :
           /\ store' = c.store
           /\ heap' = Collect(c.store, c.heap, frames)
    /\ UNCHANGED <<frames, last, tog, deleted, created, fin, db, flips, client>>

\* onMounted: await todoStore.fetchTodos(), the list is shown afterwards
LoadTodos ==
    /\ ~client.loaded
    /\ AllFree(client)
    /\ Await("load", NullRef, Null, Null)

\* isCompleted.value = !isCompleted.value; todoStore.updateToggleTodo(props.todo.id, isCompleted.value)
OnCheckClick(id) ==
    /\ client.loaded
    /\ client.isCompleted[id] # Null
    /\ \E cl \in {[client EXCEPT !.isCompleted[id] = Some(~@[1])]} :
           /\ HasFree(cl)
           /\ client' = Sent(cl, "toggle", id, Null, Some(cl.isCompleted[id][1]))
    /\ UNCHANGED <<mem, db, flips>>

ClickNext ==
    \/ \E co \in Completos : Arrange(co)
    \/ LoadTodos
    \/ \E id \in Guids : OnCheckClick(id)
    \/ \E s \in Slots : Serve(s)
    \/ \E s \in Slots : Fail(s)
    \/ \E s \in Slots : Receive(s)

\* ------------------------------------------- the service over TodoDbRepository
\* a store call that throws (DbUpdateException, NpgsqlException, ...)
DbException == [kind |-> "DbException", todos |-> {}]

\* which store call of a request is made to fail: none, the first, the second
Faults == 0..2

\* a column of type varchar(MaxLength) takes no longer value
Db_Fits(todo) == Length(todo.Descricao) <= MaxLength

\* _context.Todos.ToListAsync()
Db_GetAllAsync(t) == {t[k][1] : k \in {j \in Guids : t[j] # Null}}

\* _context.Todos.FindAsync(id): the row, read into an entity of this request
Db_GetByIdAsync(t, id) == t[id]

\* _context.Todos.Add(entity); SaveChangesAsync()
Db_CreateAsync(t, entity) == [t EXCEPT ![entity.Id] = Some(entity)]

\* _context.Todos.Update(entity); SaveChangesAsync()
Db_UpdateAsync(t, entity) == [t EXCEPT ![entity.Id] = Some(entity)]

\* FindAsync(id); if (todo != null) { Remove(todo); SaveChangesAsync() }
Db_DeleteAsync(t, id) == [t EXCEPT ![id] = Null]

\* what a request leaves: the table, the result, the store calls made
Out(t, ret, calls) == [table |-> t, ret |-> ret, calls |-> calls]

Db_Service_GetAllAsync(t, fail) ==
    IF fail = 1 THEN Out(t, DbException, <<"GetAllAsync">>)
    ELSE Out(t, [kind |-> "Todos", todos |-> Db_GetAllAsync(t)], <<"GetAllAsync">>)

Db_Service_GetByIdAsync(t, id, fail) ==
    IF fail = 1 THEN Out(t, DbException, <<"GetByIdAsync">>)
    ELSE IF Db_GetByIdAsync(t, id) = Null THEN Out(t, RetNull, <<"GetByIdAsync">>)
    ELSE Out(t, [kind |-> "Todo", todos |-> {Db_GetByIdAsync(t, id)[1]}], <<"GetByIdAsync">>)

\* TodoService.CreateAsync, g the value of Guid.NewGuid()
Db_Service_CreateAsync(t, g, d, co, fail) ==
    IF IsNullOrWhiteSpace(d) THEN Out(t, ArgumentException, <<>>)
    ELSE LET todo == [Id |-> g, Descricao |-> Trim(d[1]),
                      Completo |-> IF co = Null THEN FALSE ELSE co[1]]
         IN  IF fail = 1 \/ ~Db_Fits(todo) \/ t[g] # Null
             THEN Out(t, DbException, <<"CreateAsync">>)
             ELSE Out(Db_CreateAsync(t, todo), [kind |-> "Todo", todos |-> {todo}],
                      <<"CreateAsync">>)

Db_Service_UpdateAsync_Retry(t, id, d, co, fail) ==
    IF fail = 1 THEN Out(t, DbException, <<"GetByIdAsync">>)
    ELSE IF Db_GetByIdAsync(t, id) = Null THEN Out(t, RetFalse, <<"GetByIdAsync">>)
    ELSE IF d # Null /\ IsNullOrWhiteSpace(d) THEN Out(t, ArgumentException, <<"GetByIdAsync">>)
    ELSE LET existing == Db_GetByIdAsync(t, id)[1]
             e1 == IF d # Null THEN [existing EXCEPT !.Descricao = Trim(d[1])] ELSE existing
             e2 == IF co # Null THEN [e1 EXCEPT !.Completo = co[1]] ELSE e1
         IN  IF ~Db_Fits(e2)
             THEN Out(t, DbException, <<"GetByIdAsync", "UpdateAsync">>)
             ELSE IF fail = 2
             THEN Out(Db_UpdateAsync(t, e2), RetTrue,
                      <<"GetByIdAsync", "UpdateAsync", "UpdateAsync">>)
             ELSE Out(Db_UpdateAsync(t, e2), RetTrue, <<"GetByIdAsync", "UpdateAsync">>)

\* TodoService.UpdateAsync; existing is the entity FindAsync made for this request
Db_Service_UpdateAsync(t, id, d, co, fail) ==
    IF fail = 1 THEN Out(t, DbException, <<"GetByIdAsync">>)
    ELSE IF Db_GetByIdAsync(t, id) = Null THEN Out(t, RetFalse, <<"GetByIdAsync">>)
    ELSE IF d # Null /\ IsNullOrWhiteSpace(d) THEN Out(t, ArgumentException, <<"GetByIdAsync">>)
    ELSE LET existing == Db_GetByIdAsync(t, id)[1]
             e1 == IF d # Null THEN [existing EXCEPT !.Descricao = Trim(d[1])] ELSE existing
             e2 == IF co # Null THEN [e1 EXCEPT !.Completo = co[1]] ELSE e1
         IN  IF fail = 2 \/ ~Db_Fits(e2)
             THEN Out(t, DbException, <<"GetByIdAsync", "UpdateAsync">>)
             ELSE Out(Db_UpdateAsync(t, e2), RetTrue, <<"GetByIdAsync", "UpdateAsync">>)

Db_Service_ToggleCompleteAsync_NoSave(t, id, fail) ==
    IF fail = 1 THEN Out(t, DbException, <<"GetByIdAsync">>)
    ELSE IF Db_GetByIdAsync(t, id) = Null THEN Out(t, RetFalse, <<"GetByIdAsync">>)
    ELSE IF fail = 2 THEN Out(t, DbException, <<"GetByIdAsync", "UpdateAsync">>)
    ELSE Out(t, RetTrue, <<"GetByIdAsync", "UpdateAsync">>)

\* TodoService.ToggleCompleteAsync
Db_Service_ToggleCompleteAsync(t, id, fail) ==
    IF fail = 1 THEN Out(t, DbException, <<"GetByIdAsync">>)
    ELSE IF Db_GetByIdAsync(t, id) = Null THEN Out(t, RetFalse, <<"GetByIdAsync">>)
    ELSE LET existing == Db_GetByIdAsync(t, id)[1]
             e == [existing EXCEPT !.Completo = ~existing.Completo]
         IN  IF fail = 2 THEN Out(t, DbException, <<"GetByIdAsync", "UpdateAsync">>)
             ELSE Out(Db_UpdateAsync(t, e), RetTrue, <<"GetByIdAsync", "UpdateAsync">>)

\* TodoService.DeleteAsync
Db_Service_DeleteAsync(t, id, fail) ==
    IF fail = 1 THEN Out(t, DbException, <<"GetByIdAsync">>)
    ELSE IF Db_GetByIdAsync(t, id) = Null THEN Out(t, RetFalse, <<"GetByIdAsync">>)
    ELSE IF fail = 2 THEN Out(t, DbException, <<"GetByIdAsync", "DeleteAsync">>)
    ELSE Out(Db_DeleteAsync(t, id), RetTrue, <<"GetByIdAsync", "DeleteAsync">>)

Db_Service(t, op, id, g, d, co, fail) ==
    CASE op = "GetAll"  -> Db_Service_GetAllAsync(t, fail)
      [] op = "GetById" -> Db_Service_GetByIdAsync(t, id, fail)
      [] op = "Create"  -> Db_Service_CreateAsync(t, g, d, co, fail)
      [] op = "Update"  -> Db_Service_UpdateAsync(t, id, d, co, fail)
      [] op = "Toggle"  -> Db_Service_ToggleCompleteAsync(t, id, fail)
      [] op = "Delete"  -> Db_Service_DeleteAsync(t, id, fail)

\* the controller catches ArgumentException only: any other exception leaves
\* the action and the answer is 500
Db_Respond(op, ret) ==
    IF ret = DbException THEN Answer(500, {}) ELSE Respond(op, ret)

NoDbCall ==
    [table |-> [k \in Guids |-> Null], used |-> {}, op |-> "none", id |-> NullRef,
     fail |-> 0, ret |-> NoRet, calls |-> <<>>, http |-> NoAnswer]

\* a request handled by the service over TodoDbRepository, g the new Guid of a
\* create, fail the store call that throws
DbCall(op, id, g, d, co, fail) ==
    \E r \in {Db_Service(db.table, op, id, g, d, co, fail)} :
        db' = [table |-> r.table,
               used |-> IF op = "Create" /\ r.ret.kind = "Todo"
                        THEN db.used \cup {g} ELSE db.used,
               op |-> op, id |-> id, fail |-> fail,
               ret |-> r.ret, calls |-> r.calls, http |-> Db_Respond(op, r.ret)]

\* Guid.NewGuid(): a Guid no task of the table has had
Db_NewGuid(used) == CHOOSE g \in Guids : g \notin used /\ \A h \in Guids \ used : g <= h

DbGetAll(fail) == DbCall("GetAll", NullRef, NullRef, Null, Null, fail) /\ UNCHANGED <<mem, flips, client>>

DbGetById(id, fail) == DbCall("GetById", id, NullRef, Null, Null, fail) /\ UNCHANGED <<mem, flips, client>>

DbCreate(d, co, fail) ==
    /\ IF IsNullOrWhiteSpace(d) THEN TRUE ELSE db.used # Guids
    /\ DbCall("Create", NullRef, IF db.used # Guids THEN Db_NewGuid(db.used) ELSE NullRef,
              d, co, fail)
    /\ UNCHANGED <<mem, flips, client>>

DbUpdate(id, d, co, fail) == DbCall("Update", id, NullRef, d, co, fail) /\ UNCHANGED <<mem, flips, client>>

DbToggle(id, fail) == DbCall("Toggle", id, NullRef, Null, Null, fail) /\ UNCHANGED <<mem, flips, client>>

DbDelete(id, fail) == DbCall("Delete", id, NullRef, Null, Null, fail) /\ UNCHANGED <<mem, flips, client>>

\* ---------------------------------------------------------- specifications
Init ==
    /\ store = [k \in Guids |-> NullRef]
    /\ heap = [g \in Guids |-> FreeSlot]
    /\ frames = [p \in Procs |-> IdleFrame]
    /\ last = NoCall
    /\ tog = Null
    /\ deleted = {}
    /\ created = {}
    /\ fin = [p \in Procs |-> Null]
    /\ db = NoDbCall
    /\ flips = NoFlips
    /\ client = NoClient

Next ==
    \/ GetAllAsync
    \/ \E id \in Guids : GetByIdAsync(id)
    \/ \E d \in Descricoes, co \in Completos : CreateAsync(d, co)
    \/ \E id \in Guids, d \in Descricoes, co \in Completos : UpdateAsync(id, d, co)
    \/ \E id \in Guids : ToggleCompleteAsync(id)
    \/ \E id \in Guids : DeleteAsync(id)
    \/ NoRoute

Spec == Init /\ [][Next]_vars

ConcNext ==
    \E p \in Procs :
        \/ BeginGetAll(p)
        \/ \E id \in Guids : BeginGetById(p, id)
        \/ \E d \in ShortDescricoes, co \in Completos : BeginCreate(p, d, co)
        \/ \E id \in Guids, d \in ShortDescricoes, co \in Completos : BeginUpdate(p, id, d, co)
        \/ \E id \in Guids : BeginToggle(p, id)
        \/ \E id \in Guids : BeginDelete(p, id)
        \/ Continue(p)

ConcSpec == Init /\ [][ConcNext]_vars

\* ------------------------------------------------- the two stores side by side
\* string? arguments whose trimmed value a column of MaxLength characters takes
FittingDescricoes ==
    {Null} \cup {Some(s) : s \in {t \in Strings : Length(Trim(t)) <= MaxLength}}

\* the same request, with the same new Guid, handled by the service over the
\* in-memory TodoRepository and by the service over TodoDbRepository
Both(op, id, d, co) ==
    /\ Handle(op, id, d, co)
    /\ DbCall(op, id, IF CanAllocate(heap) THEN NewGuid(heap) ELSE NullRef, d, co, 0)
    /\ UNCHANGED <<flips, client>>

BothGetAll == Both("GetAll", NullRef, Null, Null)

BothGetById(id) == Both("GetById", id, Null, Null)

BothCreate(d, co) ==
    /\ IF IsNullOrWhiteSpace(d) THEN TRUE ELSE CanAllocate(heap)
    /\ Both("Create", NullRef, d, co)

BothUpdate(id, d, co) == Both("Update", id, d, co)

BothToggle(id) == Both("Toggle", id, Null, Null)

BothDelete(id) == Both("Delete", id, Null, Null)

BothNext ==
    \/ BothGetAll
    \/ \E id \in Guids : BothGetById(id)
    \/ \E d \in FittingDescricoes, co \in Completos : BothCreate(d, co)
    \/ \E id \in Guids, d \in FittingDescricoes, co \in Completos : BothUpdate(id, d, co)
    \/ \E id \in Guids : BothToggle(id)
    \/ \E id \in Guids : BothDelete(id)

BothSpec == Init /\ [][BothNext]_vars

\* -------------------------------------------------- creates and toggles only
\* flips once process p has run its statement
FlipsAfter(p) ==
    IF frames[p].pc = "Create_Persist"
    THEN [flips EXCEPT ![frames[p].existing] =
              Some([orig |-> heap[frames[p].existing].Completo, odd |-> FALSE])]
    ELSE IF frames[p].pc = "Toggle_Persist" /\ flips[frames[p].id] # Null
    THEN [flips EXCEPT ![frames[p].id] = Some([@[1] EXCEPT !.odd = ~@])]
    ELSE flips

\* a create request arrives at p
ArriveCreate(p, co) ==
    /\ frames[p].pc = "idle"
    /\ CanAllocate(heap)
    /\ Advance(p, [store |-> store, heap |-> heap,
                   f |-> NewFrame("Create", NullRef, Some(<<[ch |-> "a", n |-> MaxLength]>>), co)])
    /\ UNCHANGED <<db, flips, client>>

\* a toggle request arrives at p and looks the task up
ArriveToggle(p, id) ==
    /\ frames[p].pc = "idle"
    /\ Advance(p, [store |-> store, heap |-> heap, f |-> NewFrame("Toggle", id, Null, Null)])
    /\ UNCHANGED <<db, flips, client>>

\* p runs the next statement of its call
Proceed(p) ==
    /\ frames[p].pc # "idle"
    /\ Advance(p, [store |-> store, heap |-> heap, f |-> frames[p]])
    /\ flips' = FlipsAfter(p)
    /\ UNCHANGED <<db, client>>

ToggleNext ==
    \E p \in Procs :
        \/ \E co \in Completos : ArriveCreate(p, co)
        \/ \E id \in Guids : ArriveToggle(p, id)
        \/ Proceed(p)

ToggleSpec == Init /\ [][ToggleNext]_vars

\* ------------------------------------------------ TodoRepository on its own
\* the Todo objects a caller of the repository may hold: any Id, so that two
\* objects can have the same one
SomeTodos ==
    {Todo(g, <<[ch |-> "a", n |-> MaxLength]>>, c) : g \in Guids, c \in BOOLEAN}

RepoInit ==
    /\ store = [k \in Guids |-> NullRef]
    /\ heap \in [Guids -> SomeTodos]
    /\ frames = [p \in Procs |-> IdleFrame]
    /\ last = NoCall
    /\ tog = Null
    /\ deleted = {}
    /\ created = {}
    /\ fin = [p \in Procs |-> Null]
    /\ db = NoDbCall
    /\ flips = NoFlips
    /\ client = NoClient

\* a call of a TodoRepository method: had, whether the key was in the store
RepoCall(op, id, entity, st, ret) ==
    /\ store' = st
    /\ last' = [op |-> op, id |-> id, entity |-> entity, had |-> store[id] # NullRef,
                ret |-> ret]
    /\ UNCHANGED <<heap, frames, tog, deleted, created, fin, db, flips, client>>

RepoGetAll ==
    RepoCall("Repo.GetAllAsync", CHOOSE k \in Guids : TRUE, NullRef, store,
             RetTodos(heap, Repo_GetAllAsync(store)))

RepoGetById(id) ==
    RepoCall("Repo.GetByIdAsync", id, NullRef, store,
             IF Repo_GetByIdAsync(store, id) = NullRef THEN RetNull
             ELSE RetTodo(heap, Repo_GetByIdAsync(store, id)))

RepoCreate(entity) ==
    RepoCall("Repo.CreateAsync", heap[entity].Id, entity,
             Repo_CreateAsync(store, heap, entity), NoRet)

RepoUpdate(entity) ==
    RepoCall("Repo.UpdateAsync", heap[entity].Id, entity,
             Repo_UpdateAsync(store, heap, entity), NoRet)

RepoDelete(id) ==
    RepoCall("Repo.DeleteAsync", id, NullRef, Repo_DeleteAsync(store, id), NoRet)

RepoNext ==
    \/ RepoGetAll
    \/ \E id \in Guids : RepoGetById(id)
    \/ \E entity \in Guids : RepoCreate(entity)
    \/ \E entity \in Guids : RepoUpdate(entity)
    \/ \E id \in Guids : RepoDelete(id)

RepoSpec == RepoInit /\ [][RepoNext]_vars

\* requests to the service over TodoDbRepository, one at a time, any store call
\* of which may fail
DbNext ==
    \E fail \in Faults :
        \/ DbGetAll(fail)
        \/ \E id \in Guids : DbGetById(id, fail)
        \/ \E d \in Descricoes, co \in Completos : DbCreate(d, co, fail)
        \/ \E id \in Guids, d \in Descricoes, co \in Completos : DbUpdate(id, d, co, fail)
        \/ \E id \in Guids : DbToggle(id, fail)
        \/ \E id \in Guids : DbDelete(id, fail)

DbSpec == Init /\ [][DbNext]_vars

\* the actions of useTodoStore against the API, requests and answers in any order
ClientSpec == Init /\ [][ClientNext]_vars

\* a page that loads the list once and is then clicked on its check boxes
ClickSpec == Init /\ [][ClickNext]_vars

\* ------------------------------------------------------------------ claims
\* the keys of the store and the records behind them
Keys(st) == {k \in Guids : st[k] # NullRef}

Records(st, hp) == {Fields(hp, st[k]) : k \in Keys(st)}

TheTodo(ret) == CHOOSE t \in ret.todos : TRUE

\* what GetByIdAsync(id) returns in the current state
GetByIdNow(id) ==
    Service_GetByIdAsync([store |-> store, heap |-> heap,
                          f |-> NewFrame("GetById", id, Null, Null)]).f.ret

\* t is s without its leading and trailing white space: t is a stretch of s that
\* neither starts nor ends with white space, and all that s has around it is white space
IsTrimOf(t, s) ==
    /\ t # <<>>
    /\ ~IsWhiteSpace(t[1].ch)
    /\ ~IsWhiteSpace(t[Len(t)].ch)
    /\ \E i \in 1..Len(s) : \E j \in i..Len(s) :
          /\ t = SubSeq(s, i, j)
          /\ \A k \in 1..Len(s) : (k < i \/ k > j) => IsWhiteSpace(s[k].ch)

\* the bool a create stores for the completo it is given
GivenOrFalse(co) == IF co = Null THEN FALSE ELSE co[1]

\* C1: a create with a description that is not blank returns a task, and a
\* GetByIdAsync of the returned id then returns a task with that id whose
\* description is the given one trimmed and whose completed is the given flag,
\* false when no flag was given.
C1_RoundTrip ==
    (last.op = "Create" /\ ~IsNullOrWhiteSpace(last.descricao)) =>
        /\ last.ret.kind = "Todo"
        /\ LET got == GetByIdNow(TheTodo(last.ret).Id)
           IN  /\ got.kind = "Todo"
               /\ TheTodo(got).Id = TheTodo(last.ret).Id
               /\ IsTrimOf(TheTodo(got).Descricao, last.descricao[1])
               /\ TheTodo(got).Completo = GivenOrFalse(last.completo)

C1_Witness ==
    /\ last.op = "Create"
    /\ last.ret.kind = "Todo"
    /\ last.completo = Null
    /\ last.descricao[1] # TheTodo(last.ret).Descricao
    /\ GetByIdNow(TheTodo(last.ret).Id).kind = "Todo"

\* C2: a create with a null, empty or all-white-space description throws the
\* validation error and leaves the store, keys and records, as it was.
C2_BlankCreateRejected ==
    [][(last'.op = "Create" /\ IsNullOrWhiteSpace(last'.descricao)) =>
          /\ last'.ret = ArgumentException
          /\ store' = store
          /\ heap' = heap
          /\ Records(store', heap') = Records(store, heap)]_vars

C2_Witness ==
    /\ last.op = "Create"
    /\ last.descricao # Null
    /\ last.descricao[1] # <<>>
    /\ last.ret = ArgumentException
    /\ Keys(store) # {}

\* C3: an update of an existing id with a description that is given but blank
\* throws the validation error and leaves every record as it was, also when a
\* completed value comes with it.
C3_ValidationPrecedesMutation ==
    [][(/\ last'.op = "Update"
        /\ store[last'.id] # NullRef
        /\ last'.descricao # Null
        /\ IsNullOrWhiteSpace(last'.descricao)) =>
          /\ last'.ret = ArgumentException
          /\ store' = store
          /\ heap' = heap]_vars

C3_Witness ==
    /\ last.op = "Update"
    /\ last.ret = ArgumentException
    /\ last.completo # Null
    /\ store[last.id] # NullRef
    /\ heap[store[last.id]].Completo # last.completo[1]

\* C4: an update of an existing id that gives only completed changes only
\* Completo of that record; one that gives only a valid description changes
\* only Descricao, to the trimmed value; both return true, the key still holds
\* the same record with the same Id, and no other record changes.
C4_PartialUpdate ==
    [][(last'.op = "Update" /\ store[last'.id] # NullRef) =>
          LET r == store[last'.id]
              d == last'.descricao
              co == last'.completo
          IN  /\ (d = Null /\ co # Null) =>
                    /\ last'.ret = RetTrue
                    /\ heap'[r] = [heap[r] EXCEPT !.Completo = co[1]]
              /\ (~IsNullOrWhiteSpace(d) /\ co = Null) =>
                    /\ last'.ret = RetTrue
                    /\ IsTrimOf(heap'[r].Descricao, d[1])
                    /\ [heap'[r] EXCEPT !.Descricao = heap[r].Descricao] = heap[r]
              /\ store' = store
              /\ heap'[r].Id = heap[r].Id
              /\ \A g \in Guids \ {r} : heap'[g] = heap[g]]_vars

C4_Witness ==
    /\ last.op = "Update"
    /\ last.ret = RetTrue
    /\ last.descricao = Null
    /\ last.completo = Some(TRUE)
    /\ Cardinality(Keys(store)) = 2
    /\ heap[store[last.id]].Completo
    /\ \E k \in Keys(store) : ~heap[store[k]].Completo

\* C5: once DeleteAsync(id) has returned true the id stays absent from the
\* store, whatever requests overlap with the delete.
C5_DeletedStaysAbsent == \A id \in deleted : store[id] = NullRef

\* C6: every stored task has a description that is not empty and neither starts
\* nor ends with white space (so it is not all white space either).
C6_DescriptionTrimmed ==
    \A k \in Keys(store) :
        LET d == heap[store[k]].Descricao
        IN  /\ d # <<>>
            /\ ~IsWhiteSpace(d[1].ch)
            /\ ~IsWhiteSpace(d[Len(d)].ch)

C6_Witness ==
    /\ last.op = "Update"
    /\ last.ret = RetTrue
    /\ last.descricao # Null
    /\ Len(last.descricao[1]) = 3
    /\ IsWhiteSpace(last.descricao[1][1].ch)
    /\ IsWhiteSpace(last.descricao[1][3].ch)
    /\ store[last.id] # NullRef

\* C7: every stored task has a description of at most 500 characters.
C7_DescriptionAtMostMaxLength ==
    \A k \in Keys(store) : Length(heap[store[k]].Descricao) <= MaxLength

\* C8: a toggle of an id whose latest call, reads aside, was a successful toggle
\* returns true and leaves completed as it was before that earlier toggle.
C8_ToggleInvolution ==
    [][(/\ last'.op = "Toggle"
        /\ tog # Null
        /\ tog[1].id = last'.id) =>
          /\ last'.ret = RetTrue
          /\ store'[last'.id] # NullRef
          /\ heap'[store'[last'.id]].Completo = tog[1].before]_vars

C8_Witness ==
    /\ last.op = "Toggle"
    /\ last.ret = RetTrue
    /\ tog # Null
    /\ tog[1].twice
    /\ tog[1].id = last.id
    /\ heap[store[last.id]].Completo

\* C9: a toggle of an existing id returns true, negates Completo of that record
\* and changes nothing else; a toggle of an absent id returns false and changes
\* nothing.
C9_ToggleFrame ==
    [][last'.op = "Toggle" =>
          IF store[last'.id] # NullRef
          THEN LET r == store[last'.id]
               IN  /\ last'.ret = RetTrue
                   /\ store' = store
                   /\ heap' = [heap EXCEPT ![r].Completo = ~heap[r].Completo]
          ELSE /\ last'.ret = RetFalse
               /\ store' = store
               /\ heap' = heap]_vars

C9_Witness ==
    /\ last.op = "Toggle"
    /\ last.ret = RetFalse
    /\ last.id \in deleted
    /\ Keys(store) # {}

\* C10: a delete of an existing id returns true and removes that key and no
\* other, all other records unchanged; a delete of an absent id returns false
\* and changes nothing, however often it is repeated.
C10_DeleteFrame ==
    [][last'.op = "Delete" =>
          IF store[last'.id] # NullRef
          THEN /\ last'.ret = RetTrue
               /\ store' = [store EXCEPT ![last'.id] = NullRef]
               /\ \A g \in Guids \ {store[last'.id]} : heap'[g] = heap[g]
               /\ Records(store', heap') = Records(store, heap) \ {Fields(heap, store[last'.id])}
          ELSE /\ last'.ret = RetFalse
               /\ store' = store
               /\ heap' = heap]_vars

C10_Witness ==
    /\ last.op = "Delete"
    /\ last.ret = RetFalse
    /\ last.id \in deleted
    /\ Keys(store) # {}

\* C11: an update of an absent id returns false, invokes no repository method
\* but the lookup, and leaves the store and every record as they were; the id
\* has no record afterwards.
C11_UpdateAbsent ==
    [][(last'.op = "Update" /\ store[last'.id] = NullRef) =>
          /\ last'.ret = RetFalse
          /\ last'.calls = <<"GetByIdAsync">>
          /\ store' = store
          /\ heap' = heap
          /\ store'[last'.id] = NullRef]_vars

C11_Witness ==
    /\ last.op = "Update"
    /\ last.ret = RetFalse
    /\ last.descricao # Null
    /\ ~IsNullOrWhiteSpace(last.descricao)
    /\ last.completo # Null
    /\ store[last.id] = NullRef
    /\ Keys(store) # {}

\* C12, as stated: an update of an existing id that gives neither a description
\* nor completed returns true and does not invoke the repository's UpdateAsync.
C12_NoWriteWithoutFields ==
    [][(/\ last'.op = "Update"
        /\ store[last'.id] # NullRef
        /\ last'.descricao = Null
        /\ last'.completo = Null) =>
          /\ last'.ret = RetTrue
          /\ \A i \in 1..Len(last'.calls) : last'.calls[i] # "UpdateAsync"]_vars

\* C12, amended: an update invokes the repository's UpdateAsync exactly when the
\* id exists and the description, if given, is not blank, and then once, after
\* the lookup; with neither field given it returns true and that write leaves
\* the store and every record as they were.
C12_WriteIffExistsAndValid ==
    [][last'.op = "Update" =>
          LET exists == store[last'.id] # NullRef
              blank == last'.descricao # Null /\ IsNullOrWhiteSpace(last'.descricao)
          IN  /\ (exists /\ ~blank) => last'.calls = <<"GetByIdAsync", "UpdateAsync">>
              /\ ~(exists /\ ~blank) => last'.calls = <<"GetByIdAsync">>
              /\ (exists /\ last'.descricao = Null /\ last'.completo = Null) =>
                    /\ last'.ret = RetTrue
                    /\ store' = store
                    /\ heap' = heap]_vars

C12_Witness ==
    /\ last.op = "Update"
    /\ last.descricao = Null
    /\ last.completo = Null
    /\ last.ret = RetTrue
    /\ last.calls = <<"GetByIdAsync", "UpdateAsync">>
    /\ store[last.id] # NullRef

\* C13: a create that returns a task returns an id that no earlier create has
\* returned, whether that task is still stored or was deleted; an update or a
\* toggle leaves every stored task under the key and with the Id it had.
C13_IdsUniqueAndStable ==
    [][/\ (last'.op = "Create" /\ last'.ret.kind = "Todo") =>
             /\ TheTodo(last'.ret).Id \notin created
             /\ TheTodo(last'.ret).Id \notin deleted
             /\ TheTodo(last'.ret).Id \notin Keys(store)
             /\ store'[TheTodo(last'.ret).Id] # NullRef
             /\ heap'[store'[TheTodo(last'.ret).Id]].Id = TheTodo(last'.ret).Id
       /\ last'.op \in {"Update", "Toggle"} =>
             \A k \in Keys(store) :
                 /\ store'[k] = store[k]
                 /\ heap'[store'[k]].Id = heap[store[k]].Id
                 /\ heap'[store'[k]].Id = k]_vars

C13_Witness ==
    /\ last.op = "Create"
    /\ last.ret.kind = "Todo"
    /\ deleted # {}
    /\ TheTodo(last.ret).Id \notin deleted
    /\ created = deleted \cup {TheTodo(last.ret).Id}

\* C14: while an update that gives both fields is in progress and no other
\* request has written that id since the update found the task, GetByIdAsync of
\* the id returns either the whole record the update found or the whole record
\* it is to leave.
C14_AtomicSlotUpdate ==
    \A p \in Procs :
        (/\ frames[p].want # Null
         /\ frames[p].before # Null
         /\ store[frames[p].id] # NullRef) =>
            LET got == TheTodo(GetByIdNow(frames[p].id))
            IN  got = frames[p].before[1] \/ got = frames[p].want[1]

\* C15: when two overlapping updates of the same id, each giving both fields,
\* have both returned true and nothing runs any more, the stored record is the
\* whole record of one of the two.
C15_LastWriteWins ==
    \A p \in Procs : \A q \in Procs \ {p} :
        (/\ Idle
         /\ fin[p] # Null
         /\ fin[q] # Null
         /\ fin[p][1].Id = fin[q][1].Id
         /\ store[fin[p][1].Id] # NullRef) =>
            Fields(heap, store[fin[p][1].Id]) \in {fin[p][1], fin[q][1]}

\* C16: a create that returns adds its task to the store under the task's own
\* id and removes or replaces no other key, whatever requests overlap with it;
\* every task a create has returned is in the store until a delete of its id
\* has returned true.
C16_NoLostRecords ==
    [][/\ \A p \in Procs :
             (frames[p].pc = "Create_Persist" /\ frames'[p].pc = "idle") =>
                 LET g == frames[p].existing
                 IN  /\ g \notin Keys(store)
                     /\ store'[g] = g
                     /\ heap'[g] = heap[g]
                     /\ heap'[g].Id = g
                     /\ Keys(store') = Keys(store) \cup {g}
                     /\ Cardinality(Keys(store')) = Cardinality(Keys(store)) + 1
                     /\ created' = created \cup {g}
       /\ \A g \in created' \ deleted' : store'[g] # NullRef]_vars

C16_Witness ==
    \E p \in Procs : \E g \in created :
        /\ frames[p].pc = "Create_Persist"
        /\ frames[p].existing < g
        /\ store[g] = g
        /\ \E q \in Procs : frames[q].pc = "Update_Persist" /\ frames[q].id = g

\* C17: POST with a non-blank descricao answers 201 with the created task: an
\* id that was no key of the store, the trimmed descricao, completo as given or
\* false when omitted; the task is then stored under that id as it was
\* answered, so GET of the id answers 200 with it. POST with a blank or missing
\* descricao answers 400 with no task and leaves the store as it was.
C17_PostCreates ==
    [][last'.op = "Create" =>
          IF IsNullOrWhiteSpace(last'.descricao)
          THEN /\ last'.http = Answer(400, {})
               /\ store' = store
               /\ heap' = heap
          ELSE /\ last'.http.status = 201
               /\ Cardinality(last'.http.body) = 1
               /\ LET t == CHOOSE x \in last'.http.body : TRUE
                  IN  /\ t.Id \notin Keys(store)
                      /\ t.Descricao = Trim(last'.descricao[1])
                      /\ IsTrimOf(t.Descricao, last'.descricao[1])
                      /\ t.Completo = GivenOrFalse(last'.completo)
                      /\ store'[t.Id] # NullRef
                      /\ Controller_GetById(RetTodo(heap', store'[t.Id])) = Answer(200, {t})
                      /\ Keys(store') = Keys(store) \cup {t.Id}]_vars

C17_Witness ==
    /\ last.op = "Create"
    /\ last.http.status = 201
    /\ last.descricao # Null
    /\ last.descricao[1] # Trim(last.descricao[1])
    /\ last.completo = Null
    /\ Cardinality(Keys(store)) = MaxTodos

\* C18 as stated: PUT answers 204 when the task exists and the body is valid,
\* 404 when the id is absent, 400 when descricao is present but blank; after a
\* 204 for {completo: true} the task has completo true and its old descricao.
C18_PutStatus ==
    [][last'.op = "Update" =>
          LET exists == store[last'.id] # NullRef
              blank == last'.descricao # Null /\ IsNullOrWhiteSpace(last'.descricao)
          IN  /\ (exists /\ ~blank) => last'.http.status = 204
              /\ ~exists => last'.http.status = 404
              /\ blank => last'.http.status = 400
              /\ (last'.http.status = 204 /\ last'.descricao = Null
                      /\ last'.completo = Some(TRUE)) =>
                     /\ heap'[store'[last'.id]].Completo
                     /\ heap'[store'[last'.id]].Descricao = heap[store[last'.id]].Descricao]_vars

\* C18, amended: PUT answers 404 when the id is absent, whatever the body; when
\* the task exists it answers 400 if descricao is present but blank and 204
\* otherwise; after a 204 for {completo: true} the task has completo true and
\* its old descricao.
C18_PutStatusLookupFirst ==
    [][last'.op = "Update" =>
          LET exists == store[last'.id] # NullRef
              blank == last'.descricao # Null /\ IsNullOrWhiteSpace(last'.descricao)
          IN  /\ last'.http.body = {}
              /\ last'.http.status =
                     (IF ~exists THEN 404 ELSE IF blank THEN 400 ELSE 204)
              /\ (last'.http.status = 204 /\ last'.descricao = Null
                      /\ last'.completo = Some(TRUE)) =>
                     /\ heap'[store'[last'.id]].Completo
                     /\ heap'[store'[last'.id]].Descricao = heap[store[last'.id]].Descricao
                     /\ store' = store]_vars

C18_Witness ==
    /\ last.op = "Update"
    /\ last.http.status = 204
    /\ last.descricao = Null
    /\ last.completo = Some(TRUE)
    /\ heap[store[last.id]].Completo
    /\ heap[store[last.id]].Descricao # EmptyString

\* C19: GET by id, PATCH toggle and DELETE answer 404 exactly when the store
\* has no record under the id when the request is handled, and otherwise 200
\* with the task, 200 and 204; a request whose id is no Guid answers 404; an
\* answer of 404 leaves the store as it was.
C19_NotFoundIffAbsent ==
    [][/\ last'.op \in {"GetById", "Toggle", "Delete"} =>
             /\ (last'.http.status = 404) <=> (store[last'.id] = NullRef)
             /\ store[last'.id] # NullRef =>
                    last'.http = (CASE last'.op = "GetById" ->
                                           Answer(200, {Fields(heap, store[last'.id])})
                                    [] last'.op = "Toggle" -> Answer(200, {})
                                    [] last'.op = "Delete" -> Answer(204, {}))
       /\ last'.op = "NoRoute" => last'.http.status = 404
       /\ (last'.op \in {"GetById", "Toggle", "Delete", "NoRoute"}
               /\ last'.http.status = 404) =>
             (store' = store /\ heap' = heap)]_vars

C19_Witness ==
    /\ last.op = "Delete"
    /\ last.http.status = 404
    /\ last.id \in deleted
    /\ Keys(store) # {}

\* C20: GetAllAsync returns the records of the store and nothing else, one for
\* each key, which are the tasks created and not deleted; it returns the empty
\* collection when the store is empty, it returns a collection in every state,
\* and it leaves the store as it was.
C20_GetAllExact ==
    [][last'.op = "GetAll" =>
          /\ last'.ret.kind = "Todos"
          /\ last'.ret.todos = Records(store, heap)
          /\ Cardinality(last'.ret.todos) = Cardinality(Keys(store))
          /\ {t.Id : t \in last'.ret.todos} = created \ deleted
          /\ Keys(store) = {} => last'.ret.todos = {}
          /\ last'.http = Answer(200, Records(store, heap))
          /\ last'.calls = <<"GetAllAsync">>
          /\ store' = store
          /\ heap' = heap]_vars

C20_Witness ==
    /\ last.op = "GetAll"
    /\ Cardinality(last.ret.todos) = 1
    /\ deleted # {}
    /\ \E t \in last.ret.todos : t.Completo /\ t.Id \notin deleted

\* C21: when a store call of a create, update, toggle or delete fails, it is
\* the last store call of the request and was made once, the request ends with
\* the exception (answer 500: not a task, true, false or ArgumentException),
\* and the table is as it was before the request.
C21_FailedStoreCallNotRetried ==
    [][(/\ db'.op \in {"Create", "Update", "Toggle", "Delete"}
        /\ db'.fail # 0
        /\ Len(db'.calls) >= db'.fail) =>
           /\ Len(db'.calls) = db'.fail
           /\ \A i \in 1..Len(db'.calls) : \A j \in 1..Len(db'.calls) :
                  db'.calls[i] = db'.calls[j] => i = j
           /\ db'.ret = DbException
           /\ db'.http = Answer(500, {})
           /\ db'.table = db.table]_vars

C21_Witness ==
    /\ db.op = "Update"
    /\ db.fail = 2
    /\ db.calls = <<"GetByIdAsync", "UpdateAsync">>
    /\ db.ret = DbException
    /\ db.table[db.id] # Null
    /\ ~db.table[db.id][1].Completo

\* C22: in the in-memory TodoRepository, CreateAsync of an entity whose id is
\* a key of the store puts the entity under that key and leaves the number of
\* records as it was; GetByIdAsync of an id that is no key returns null and
\* throws nothing; DeleteAsync of an id that is no key leaves the store as it
\* was; UpdateAsync of an entity whose id is no key adds the entity under it.
C22_StoreOnPresentAndAbsentKeys ==
    [][/\ (last'.op = "Repo.CreateAsync" /\ store[last'.id] # NullRef) =>
              /\ store' = [store EXCEPT ![last'.id] = last'.entity]
              /\ Fields(heap', store'[last'.id]) = Fields(heap, last'.entity)
              /\ Keys(store') = Keys(store)
              /\ Cardinality(Keys(store')) = Cardinality(Keys(store))
       /\ (last'.op = "Repo.GetByIdAsync" /\ store[last'.id] = NullRef) =>
              /\ last'.ret = RetNull
              /\ store' = store
       /\ (last'.op = "Repo.DeleteAsync" /\ store[last'.id] = NullRef) =>
              store' = store
       /\ (last'.op = "Repo.UpdateAsync" /\ store[last'.id] = NullRef) =>
              /\ store' = [store EXCEPT ![last'.id] = last'.entity]
              /\ Keys(store') = Keys(store) \cup {last'.id}
              /\ Cardinality(Keys(store')) = Cardinality(Keys(store)) + 1]_vars

C22_Witness ==
    /\ last.op = "Repo.CreateAsync"
    /\ last.had
    /\ store[last.id] = last.entity
    /\ \E r \in Guids : r # last.entity /\ heap[r].Id = last.id
                           /\ heap[r].Completo # heap[last.entity].Completo
    /\ Cardinality(Keys(store)) = 1

\* C23: whatever requests overlap, no statement of an UpdateAsync or
\* ToggleCompleteAsync call changes the set of ids in the store.
C23_OnlyCreateAddsOnlyDeleteRemoves ==
    [][\A p \in Procs :
          (/\ frames'[p].pc # frames[p].pc
           /\ frames[p].op \in {"Update", "Toggle"} \/ frames'[p].op \in {"Update", "Toggle"}) =>
              Keys(store') = Keys(store)]_vars

\* C25: whatever requests overlap, a DeleteAsync(id) call returns true only if
\* no DeleteAsync call of that id has returned true before.
C25_AtMostOneDeleteSucceeds ==
    [][\A p \in Procs :
          (/\ frames[p].pc = "Delete_Remove"
           /\ frames'[p].pc = "idle") =>
              /\ frames[p].id \notin deleted
              /\ deleted' = deleted \cup {frames[p].id}]_vars

\* C24: when only creates and toggles are requested and none is in progress,
\* the completed value of each task is the value it was created with if the
\* number of ToggleCompleteAsync calls on it that returned true is even, and
\* the negation of that value if the number is odd.
C24_TogglesNotLost ==
    Idle =>
        \A g \in Guids :
            flips[g] # Null =>
                /\ store[g] # NullRef
                /\ heap[store[g]].Completo = (flips[g][1].orig # flips[g][1].odd)

\* C26: UpdateAsync of an id that is not in the store, with a descricao that
\* is given but empty or all whitespace, returns false and PUT answers 404:
\* it does not throw ArgumentException and PUT does not answer 400.
C26_AbsentBeforeBlank ==
    [][(/\ last'.op = "Update"
        /\ store[last'.id] = NullRef
        /\ last'.descricao # Null
        /\ IsNullOrWhiteSpace(last'.descricao)) =>
           /\ last'.ret = RetFalse
           /\ last'.ret # ArgumentException
           /\ last'.http.status = 404
           /\ last'.http.status # 400]_vars

C26_Witness ==
    /\ last.op = "Update"
    /\ store[last.id] = NullRef
    /\ last.descricao # Null
    /\ last.descricao # Some(EmptyString)
    /\ IsNullOrWhiteSpace(last.descricao)
    /\ last.http.status = 404
    /\ last.id \in deleted

\* C27: when the same requests, one at a time and with descriptions whose
\* trimmed value has at most MaxLength characters, go to the service over the
\* in-memory TodoRepository and to the service over TodoDbRepository, every
\* request returns the same result and is answered alike by both, and after it
\* both hold the same set of records.
C27_StoresInterchangeable ==
    [][/\ last'.ret = db'.ret
       /\ last'.http = db'.http
       /\ Records(store', heap') = Db_GetAllAsync(db'.table)
       /\ Keys(store') = {k \in Guids : db'.table[k] # Null}]_vars

C27_Witness ==
    /\ last.op = "Toggle"
    /\ last.ret = RetTrue
    /\ db.ret = RetTrue
    /\ Records(store, heap) # {}
    /\ Records(store, heap) = Db_GetAllAsync(db.table)
    /\ \E t \in Db_GetAllAsync(db.table) : t.Completo
    /\ deleted # {}

\* C28: when the request of addTodo, updateTodo, updateToggleTodo or
\* deleteTodo fails (no answer, or an answer outside 200..299), the end of the
\* action leaves todos as it is and the action ends in its catch block, nothing
\* thrown further; todos changes only in a step that ends an action whose
\* request was answered with success.
C28_ClientKeepsListOnFailure ==
    [][/\ \A s \in Slots :
             (/\ client.reqs[s].phase \in {"answered", "failed"}
              /\ client'.reqs[s].phase = "free"
              /\ client.reqs[s].kind \in {"add", "put", "toggle", "delete"}
              /\ ~Resolves(client.reqs[s])) =>
                 /\ client'.todos = client.todos
                 /\ client'.outcome = "caught"
       /\ client'.todos # client.todos =>
             \E s \in Slots : Resolves(client.reqs[s]) /\ client'.reqs[s].phase = "free"]_vars

C28_Witness ==
    /\ client.outcome = "caught"
    /\ AllFree(client)
    /\ \E g \in Guids : client.todos[g] # Null /\ store[g] = NullRef
    /\ \E g \in Guids : client.todos[g] # Null /\ store[g] # NullRef
                           /\ client.todos[g][1].completo # heap[store[g]].Completo

\* C29: in a page that loaded its list and was then only clicked on check
\* boxes, when no request is under way, for every task shown the component's
\* isCompleted, the completo of the task in todos and the Completo stored by
\* the API are equal.
C29_CompletedAgrees ==
    (client.loaded /\ AllFree(client)) =>
        \A g \in Guids :
            (client.isCompleted[g] # Null /\ store[g] # NullRef) =>
                /\ client.isCompleted[g][1] = client.todos[g][1].completo
                /\ client.todos[g][1].completo = heap[store[g]].Completo

=============================================================================
